---- MODULE Spec2Model ----
(***************************************************************************)
(* A model of binder/helpers.py: the three update operations add_record,  *)
(* add_cname_record and delete_record, the update builder create_update   *)
(* and the sender/classifier send_dns_update.                             *)
(*                                                                         *)
(* A Python string is a sequence of fragments (one character each where    *)
(* the code looks at characters, a whole literal where it only copies     *)
(* it); concatenation and %-formatting are \o.                             *)
(***************************************************************************)
EXTENDS Integers, Sequences, FiniteSets

VARIABLES
    pc,         \* position of the current call
    call,       \* the arguments of the current call
    response,   \* add_record's `response` / delete_record's `delete_response`;
                \* once pc = "returned", the value the call returned
    raised,     \* the exception that left the call (when pc = "raised")
    cred,       \* delete_record's locals server.dns_port, keyring, algorithm
    idx,        \* delete_record's position in rr_list (1-based)
    built,      \* every update message built during the call, in order
    sent,       \* every dns.query.tcp exchange of the call, in order
    conns,      \* every TCP connection the call opened, in order
    keys,       \* the rows of the Key table
    nsRecords   \* the records the nameserver holds

vars == <<pc, call, response, raised, cred, idx, built, sent, conns, keys, nsRecords>>

(***************************************************************************)
(* Bounds of the model.                                                    *)
(***************************************************************************)
\* longest rr_list handed to delete_record
MaxRR == 2

(***************************************************************************)
(* Strings.                                                                *)
(***************************************************************************)
Range(s) == {s[i] : i \in 1..Len(s)}

\* sub occurs in s as a contiguous piece
Contains(s, sub) ==
    \E i \in 1..(Len(s) - Len(sub) + 1) : SubSeq(s, i, i + Len(sub) - 1) = sub

Min(S) == CHOOSE m \in S : \A n \in S : m <= n

Max(S) == CHOOSE m \in S : \A n \in S : m >= n

\* faulty variant of Split1: the cut is at the last "."
SplitLast(s) ==
    LET dots == {i \in 1..Len(s) : s[i] = "."}
    IN  IF dots = {} THEN <<s>>
        ELSE <<SubSeq(s, 1, Max(dots) - 1), SubSeq(s, Max(dots) + 1, Len(s))>>

\* Python's s.split(".", 1): cut at the first "." only
Split1(s) ==
    LET dots == {i \in 1..Len(s) : s[i] = "."}
    IN  IF dots = {} THEN <<s>>
        ELSE <<SubSeq(s, 1, Min(dots) - 1), SubSeq(s, Min(dots) + 1, Len(s))>>

HexChars == <<"0", "1", "2", "3", "4", "5", "6", "7", "8", "9",
              "a", "b", "c", "d", "e", "f">>

IsDigit(c) == c \in {"0", "1", "2", "3", "4", "5", "6", "7", "8", "9"}

\* "%d" of a non-negative integer
RECURSIVE Decimal(_)
Decimal(n) ==
    IF n < 10 THEN <<HexChars[n + 1]>>
    ELSE Decimal(n \div 10) \o <<HexChars[(n % 10) + 1]>>

(***************************************************************************)
(* Exceptions and results.                                                 *)
(***************************************************************************)
NoExc == [type |-> "NoExc", msg |-> <<>>]
Exc(t, m) == [type |-> t, msg |-> m]
NoOutput == [rcode |-> -1]

(***************************************************************************)
(* The registries (Django models BindServer and Key).                      *)
(***************************************************************************)
BindServers == {[hostname |-> <<"ns1">>, dns_port |-> 53]}

\* the Key table as configured
Keys == {[name |-> <<"k1">>, data |-> <<"c2VjcmV0">>, algorithm |-> "hmac-md5"]}

\* models.BindServer.objects.get(hostname=dns_server)
ServerKnown(dns_server) == \E s \in BindServers : s.hostname = dns_server
GetServer(dns_server) == CHOOSE s \in BindServers : s.hostname = dns_server

\* models.Key.objects.get(name=key_name)
KeyKnown(key_name) == \E k \in keys : k.name = key_name
GetKey(key_name) == CHOOSE k \in keys : k.name = key_name

\* transfer_key.create_keyring()
CreateKeyring(k) == [name |-> k.name, secret |-> k.data]

UnknownKeyError(key_name) ==
    Exc("KeyringException",
        <<"The specified TSIG key ">> \o key_name
          \o <<" does not exist in binders configuration.">>)

(***************************************************************************)
(* Response codes (dns.rcode).                                             *)
(***************************************************************************)
NOERROR == 0

\* dns.rcode.to_text
RcodeText(r) ==
    CASE r = 0 -> "NOERROR"
      [] r = 1 -> "FORMERR"
      [] r = 2 -> "SERVFAIL"
      [] r = 3 -> "NXDOMAIN"
      [] r = 4 -> "NOTIMP"
      [] r = 5 -> "REFUSED"
      [] r = 6 -> "YXDOMAIN"
      [] r = 7 -> "YXRRSET"
      [] r = 8 -> "NXRRSET"
      [] r = 9 -> "NOTAUTH"
      [] r = 10 -> "NOTZONE"
      [] r = 16 -> "BADVERS"

(***************************************************************************)
(* What dns.query.tcp can do with one message: hand back a response with  *)
(* some rcode, or raise (a TSIG error reported by the peer, or a          *)
(* connection-level error of the socket).                                  *)
(***************************************************************************)
Rcodes == {0, 3, 5}
TsigErrors == {"PeerBadKey", "PeerBadSignature"}
TransportErrors == {"socket.timeout", "ConnectionRefusedError"}

NetOutcomes ==
    {[kind |-> "response", rcode |-> r, exc |-> "-"] : r \in Rcodes}
    \cup {[kind |-> "raise", rcode |-> -1, exc |-> e] :
             e \in TsigErrors \cup TransportErrors}

(***************************************************************************)
(* send_dns_update(dns_message, dns_server, port, key_name)               *)
(* net is what dns.query.tcp did.  The result is the exception raised (or *)
(* NoExc) and the value returned (or NoOutput).                            *)
(***************************************************************************)
\* faulty variant of SendDnsUpdate: every response is returned, whatever its code
SendDnsUpdateNoRcodeCheck(dns_message, dns_server, port, key_name, net) ==
    IF net.kind = "raise" /\ net.exc = "PeerBadKey"
    THEN [exc |-> Exc("KeyringException",
                      <<"DNS server ">> \o dns_server
                        \o <<" is not configured for TSIG key: ">>
                        \o key_name \o <<".">>),
          output |-> NoOutput]
    ELSE IF net.kind = "raise" /\ net.exc = "PeerBadSignature"
    THEN [exc |-> Exc("KeyringException",
                      <<"DNS server ">> \o dns_server
                        \o <<" didn't like the TSIG signature we sent. Check key ">>
                        \o key_name \o <<" for correctness.">>),
          output |-> NoOutput]
    ELSE IF net.kind = "raise"
    THEN [exc |-> Exc(net.exc, <<>>), output |-> NoOutput]
    ELSE [exc |-> NoExc, output |-> [rcode |-> net.rcode]]

SendDnsUpdate(dns_message, dns_server, port, key_name, net) ==
    IF net.kind = "raise" /\ net.exc = "PeerBadKey"
    THEN [exc |-> Exc("KeyringException",
                      <<"DNS server ">> \o dns_server
                        \o <<" is not configured for TSIG key: ">>
                        \o key_name \o <<".">>),
          output |-> NoOutput]
    ELSE IF net.kind = "raise" /\ net.exc = "PeerBadSignature"
    THEN [exc |-> Exc("KeyringException",
                      <<"DNS server ">> \o dns_server
                        \o <<" didn't like the TSIG signature we sent. Check key ">>
                        \o key_name \o <<" for correctness.">>),
          output |-> NoOutput]
    ELSE IF net.kind = "raise"
    THEN \* any other exception of dns.query.tcp is not caught here
         [exc |-> Exc(net.exc, <<>>), output |-> NoOutput]
    ELSE IF net.rcode # NOERROR
    THEN [exc |-> Exc("RecordException",
                      <<"Error when requesting DNS server ">> \o dns_server
                        \o <<": ">> \o <<RcodeText(net.rcode)>>),
          output |-> NoOutput]
    ELSE [exc |-> NoExc, output |-> [rcode |-> net.rcode]]

\* one entry of the log `sent`: a call of send_dns_update that reached
\* dns.query.tcp (keys_then: the Key table at that moment, kept for the record)
Exchange(dns_message, dns_server, port, key_name, net) ==
    [message |-> dns_message, server |-> dns_server, port |-> port,
     key_name |-> key_name, net |-> net, keys_then |-> keys,
     result |-> SendDnsUpdate(dns_message, dns_server, port, key_name, net)]

(***************************************************************************)
(* Address literals.  The parse of an address literal is dnspython's; the *)
(* model tabulates it for the literals it uses: family 4 with 4 octets,   *)
(* family 6 with 32 nibbles.  Every other string is not an address.       *)
(***************************************************************************)
Zeros(n) == [i \in 1..n |-> 0]

AddressLiterals ==
    { [text |-> <<"1", "0", ".", "2", "0", ".", "0", ".", "5">>,
       family |-> 4, packed |-> <<10, 20, 0, 5>>],
      [text |-> <<"1", "9", "2", ".", "0", ".", "2", ".", "1", "7">>,
       family |-> 4, packed |-> <<192, 0, 2, 17>>],
      [text |-> <<"2", "0", "0", "1", ":", "d", "b", "8", ":", ":", "1">>,
       family |-> 6, packed |-> <<2, 0, 0, 1, 0, 13, 11, 8>> \o Zeros(23) \o <<1>>],
      [text |-> <<"2", "0", "0", "1", ":", "d", "b", "8", ":", ":", "a">>,
       family |-> 6, packed |-> <<2, 0, 0, 1, 0, 13, 11, 8>> \o Zeros(23) \o <<10>>],
      [text |-> <<"f", "e", "8", "0", ":", ":", "b", "c">>,
       family |-> 6, packed |-> <<15, 14, 8, 0>> \o Zeros(26) \o <<11, 12>>] }

IsAddress(text) == \E a \in AddressLiterals : a.text = text
Inet(text) == CHOOSE a \in AddressLiterals : a.text = text
Family(text) == IF IsAddress(text) THEN Inet(text).family ELSE 0

\* the labels of a reverse name, lowest-order unit first, each followed by "."
RECURSIVE ReversedLabels(_, _)
ReversedLabels(packed, family) ==
    IF packed = <<>> THEN <<>>
    ELSE LET last == packed[Len(packed)]
             label == IF family = 4 THEN Decimal(last) ELSE <<HexChars[last + 1]>>
         IN  label \o <<".">> \o ReversedLabels(SubSeq(packed, 1, Len(packed) - 1), family)

\* str(dns.reversename.from_address(text)), for an address literal
FromAddress(text) ==
    LET a == Inet(text)
    IN  ReversedLabels(a.packed, a.family)
          \o (IF a.family = 4
              THEN <<"i", "n", "-", "a", "d", "d", "r", ".", "a", "r", "p", "a", ".">>
              ELSE <<"i", "p", "6", ".", "a", "r", "p", "a", ".">>)

(***************************************************************************)
(* re.search of add_record's pattern (one or more digits, captured; any   *)
(* one character; the rest of the string, captured) on a string without   *)
(* line breaks: the match starts at the leftmost digit that has a         *)
(* character after it; group 1 is the longest run of digits from there    *)
(* that still leaves one character for the dot of the pattern, which      *)
(* matches ANY character; group 2 is the rest of the string.              *)
(***************************************************************************)
RECURSIVE DigitRunEnd(_, _)
DigitRunEnd(s, i) ==
    IF i < Len(s) /\ IsDigit(s[i + 1]) THEN DigitRunEnd(s, i + 1) ELSE i

ReMatches(s) == \E i \in 1..(Len(s) - 1) : IsDigit(s[i])

ReSearch(s) ==
    LET i == Min({k \in 1..(Len(s) - 1) : IsDigit(s[k])})
        e == DigitRunEnd(s, i)
        j == IF e = Len(s) THEN e - 1 ELSE e
    IN  [group1 |-> SubSeq(s, i, j), group2 |-> SubSeq(s, j + 2, Len(s))]

(***************************************************************************)
(* create_update(dns_server, zone_name, record_name, record_type,         *)
(*               record_data, ttl, key_name, replace)                     *)
(***************************************************************************)
\* faulty variant of TxtQuote: rdata passed through whatever the type
TxtQuoteNever(record_type, record_data) == record_data

\* the rdata create_update puts in the update
TxtQuote(record_type, record_data) ==
    IF record_type = "TXT" THEN <<"\"">> \o record_data \o <<"\"">>
    ELSE record_data

\* dns_update.replace(...) or dns_update.add(...)
UpdateMode(replace) == IF replace THEN "replace" ELSE "add"

\* dnspython parses the rdata text as the record type asks when the record is
\* put in the update: an A record takes an IPv4 literal, an AAAA record an IPv6
\* literal
RdataParses(record_type, rdata) ==
    CASE record_type = "A" -> Family(rdata) = 4
      [] record_type = "AAAA" -> Family(rdata) = 6
      [] OTHER -> TRUE

\* the update message: dns.update.Update(zone, keyring, keyalgorithm) with one
\* add/replace/delete in it
UpdateMessage(zone, keyring, algorithm, op, name, ttl, rtype, rdata) ==
    [zone |-> zone, keyring |-> keyring, keyalgorithm |-> algorithm,
     op |-> op, name |-> name, ttl |-> ttl, rtype |-> rtype, rdata |-> rdata]

Failed(e) == [exc |-> e, output |-> NoOutput, built |-> <<>>, sent |-> <<>>]

\* faulty variant of CreateUpdate: an update that failed is sent a second time
CreateUpdateRetries(dns_server, zone_name, record_name, record_type, record_data, ttl, key_name, replace, net) ==
    IF ~ServerKnown(dns_server)
    THEN Failed(Exc("BindServer.DoesNotExist", <<>>))
    ELSE IF ~KeyKnown(key_name)
    THEN Failed(UnknownKeyError(key_name))
    ELSE
      LET server == GetServer(dns_server)
          transfer_key == GetKey(key_name)
          rdata == TxtQuote(record_type, record_data)
          dns_update == UpdateMessage(zone_name, CreateKeyring(transfer_key),
                                      transfer_key.algorithm, UpdateMode(replace),
                                      record_name, ttl, record_type, rdata)
          x == Exchange(dns_update, dns_server, server.dns_port, key_name, net)
      IN  IF ~RdataParses(record_type, rdata)
          THEN Failed(Exc("dns.exception.SyntaxError", <<>>))
          ELSE [exc |-> x.result.exc, output |-> x.result.output,
                built |-> <<dns_update>>,
                sent |-> IF x.result.exc = NoExc THEN <<x>> ELSE <<x, x>>]

\* faulty variant of CreateUpdate: the update is built without the key lookup's check
CreateUpdateNoKeyCheck(dns_server, zone_name, record_name, record_type, record_data, ttl, key_name, replace, net) ==
    IF ~ServerKnown(dns_server)
    THEN Failed(Exc("BindServer.DoesNotExist", <<>>))
    ELSE
      LET server == GetServer(dns_server)
          rdata == TxtQuote(record_type, record_data)
          dns_update == UpdateMessage(zone_name, <<"none">>, "-", UpdateMode(replace),
                                      record_name, ttl, record_type, rdata)
          x == Exchange(dns_update, dns_server, server.dns_port, key_name, net)
      IN  IF ~RdataParses(record_type, rdata)
          THEN Failed(Exc("dns.exception.SyntaxError", <<>>))
          ELSE [exc |-> x.result.exc, output |-> x.result.output,
                built |-> <<dns_update>>, sent |-> <<x>>]

CreateUpdate(dns_server, zone_name, record_name, record_type, record_data, ttl, key_name, replace, net) ==
    IF ~ServerKnown(dns_server)
    THEN Failed(Exc("BindServer.DoesNotExist", <<>>))
    ELSE IF ~KeyKnown(key_name)
    THEN Failed(UnknownKeyError(key_name))
    ELSE
      LET server == GetServer(dns_server)
          transfer_key == GetKey(key_name)
          rdata == TxtQuote(record_type, record_data)
          dns_update == UpdateMessage(zone_name, CreateKeyring(transfer_key),
                                      transfer_key.algorithm, UpdateMode(replace),
                                      record_name, ttl, record_type, rdata)
          x == Exchange(dns_update, dns_server, server.dns_port, key_name, net)
      IN  IF ~RdataParses(record_type, rdata)
          THEN Failed(Exc("dns.exception.SyntaxError", <<>>))
          ELSE [exc |-> x.result.exc, output |-> x.result.output,
                built |-> <<dns_update>>, sent |-> <<x>>]

(***************************************************************************)
(* add_record: the forward step, and the reverse step.  Each         *)
(* yields the call's next position, its response list, the exception that *)
(* leaves the call, and what was built and sent on the way.               *)
(***************************************************************************)
\* faulty variant of AddRecordForward: the failure is swallowed and the call goes on
AddRecordForwardGoesOn(c, net) ==
    LET r == CreateUpdate(c.dns_server, c.zone_name, c.record_name,
                          c.record_type, c.record_data, c.ttl, c.key_name,
                          c.replace, net)
    IN  [pc |-> IF c.create_reverse THEN "add_reverse" ELSE "returned",
         response |-> <<[description |-> <<"Forward Record Creation: ">>
                             \o c.record_name \o <<".">> \o c.zone_name,
                         output |-> r.output]>>,
         raised |-> NoExc, built |-> r.built, sent |-> r.sent]

AddRecordForward(c, net) ==
    LET r == CreateUpdate(c.dns_server, c.zone_name, c.record_name,
                          c.record_type, c.record_data, c.ttl, c.key_name,
                          c.replace, net)
    IN  IF r.exc # NoExc
        THEN [pc |-> "raised", response |-> <<>>, raised |-> r.exc,
              built |-> r.built, sent |-> r.sent]
        ELSE [pc |-> IF c.create_reverse THEN "add_reverse" ELSE "returned",
              response |-> <<[description |-> <<"Forward Record Creation: ">>
                                  \o c.record_name \o <<".">> \o c.zone_name,
                              output |-> r.output]>>,
              raised |-> NoExc, built |-> r.built, sent |-> r.sent]

\* reverse_ip and reverse_domain
ReverseIp(record_data) == ReSearch(FromAddress(record_data)).group1
ReverseDomain(record_data) == ReSearch(FromAddress(record_data)).group2

\* faulty variant of AddRecordReverse: a reverse step that failed is reported
AddRecordReverseGoesOn(c, resp, net) ==
    IF ~IsAddress(c.record_data)
    THEN [pc |-> "raised", response |-> resp,
          raised |-> Exc("dns.exception.SyntaxError", <<>>),
          built |-> <<>>, sent |-> <<>>]
    ELSE IF ~ReMatches(FromAddress(c.record_data))
    THEN [pc |-> "raised", response |-> resp,
          raised |-> Exc("AttributeError", <<>>),
          built |-> <<>>, sent |-> <<>>]
    ELSE
      LET r == CreateUpdate(c.dns_server, ReverseDomain(c.record_data),
                            ReverseIp(c.record_data), "PTR",
                            c.record_name \o <<".">> \o c.zone_name \o <<".">>,
                            c.ttl, c.key_name, TRUE, net)
      IN  [pc |-> "returned",
           response |-> Append(resp,
               [description |-> <<"Reverse Record Creation: ">> \o c.record_data,
                output |-> r.output]),
           raised |-> NoExc, built |-> r.built, sent |-> r.sent]

\* faulty variant of AddRecordReverse: a reverse update that failed is followed
\* by a DELETE that takes the forward record back
AddRecordReverseRollsBack(c, resp, net) ==
    IF ~IsAddress(c.record_data)
    THEN [pc |-> "raised", response |-> resp,
          raised |-> Exc("dns.exception.SyntaxError", <<>>),
          built |-> <<>>, sent |-> <<>>]
    ELSE IF ~ReMatches(FromAddress(c.record_data))
    THEN [pc |-> "raised", response |-> resp,
          raised |-> Exc("AttributeError", <<>>),
          built |-> <<>>, sent |-> <<>>]
    ELSE
      LET r == CreateUpdate(c.dns_server, ReverseDomain(c.record_data),
                            ReverseIp(c.record_data), "PTR",
                            c.record_name \o <<".">> \o c.zone_name \o <<".">>,
                            c.ttl, c.key_name, TRUE, net)
          undo == UpdateMessage(c.zone_name, CreateKeyring(GetKey(c.key_name)),
                                GetKey(c.key_name).algorithm,
                                "delete", c.record_name, 0, "ANY", <<>>)
      IN  IF r.exc # NoExc /\ r.sent # <<>>
          THEN [pc |-> "raised", response |-> resp, raised |-> r.exc,
                built |-> r.built \o <<undo>>,
                sent |-> r.sent \o <<Exchange(undo, c.dns_server,
                                              GetServer(c.dns_server).dns_port,
                                              c.key_name, net)>>]
          ELSE IF r.exc # NoExc
          THEN [pc |-> "raised", response |-> resp, raised |-> r.exc,
                built |-> r.built, sent |-> r.sent]
          ELSE [pc |-> "returned",
                response |-> Append(resp,
                    [description |-> <<"Reverse Record Creation: ">> \o c.record_data,
                     output |-> r.output]),
                raised |-> NoExc, built |-> r.built, sent |-> r.sent]

AddRecordReverse(c, resp, net) ==
    IF ~IsAddress(c.record_data)
    THEN \* dns.reversename.from_address raises
         [pc |-> "raised", response |-> resp,
          raised |-> Exc("dns.exception.SyntaxError", <<>>),
          built |-> <<>>, sent |-> <<>>]
    ELSE IF ~ReMatches(FromAddress(c.record_data))
    THEN \* re.search gave None
         [pc |-> "raised", response |-> resp,
          raised |-> Exc("AttributeError", <<>>),
          built |-> <<>>, sent |-> <<>>]
    ELSE
      LET r == CreateUpdate(c.dns_server, ReverseDomain(c.record_data),
                            ReverseIp(c.record_data), "PTR",
                            c.record_name \o <<".">> \o c.zone_name \o <<".">>,
                            c.ttl, c.key_name, TRUE, net)
      IN  IF r.exc # NoExc
          THEN [pc |-> "raised", response |-> resp, raised |-> r.exc,
                built |-> r.built, sent |-> r.sent]
          ELSE [pc |-> "returned",
                response |-> Append(resp,
                    [description |-> <<"Reverse Record Creation: ">> \o c.record_data,
                     output |-> r.output]),
                raised |-> NoExc, built |-> r.built, sent |-> r.sent]

(***************************************************************************)
(* add_cname_record                                                        *)
(***************************************************************************)
\* faulty variant of AddCnameRecord: the CNAME is added, not replaced
AddCnameRecordAdds(c, net) ==
    LET r == CreateUpdate(c.dns_server, c.zone_name, c.cname, "CNAME",
                          c.originating_record \o <<".">>, c.ttl, c.key_name,
                          FALSE, net)
    IN  IF r.exc # NoExc
        THEN [pc |-> "raised", response |-> <<>>, raised |-> r.exc,
              built |-> r.built, sent |-> r.sent]
        ELSE [pc |-> "returned",
              response |-> <<[description |-> <<"CNAME ">> \o c.cname \o <<".">>
                                  \o c.zone_name \o <<" points to ">>
                                  \o c.originating_record,
                              output |-> r.output]>>,
              raised |-> NoExc, built |-> r.built, sent |-> r.sent]

AddCnameRecord(c, net) ==
    LET r == CreateUpdate(c.dns_server, c.zone_name, c.cname, "CNAME",
                          c.originating_record \o <<".">>, c.ttl, c.key_name,
                          TRUE, net)
    IN  IF r.exc # NoExc
        THEN [pc |-> "raised", response |-> <<>>, raised |-> r.exc,
              built |-> r.built, sent |-> r.sent]
        ELSE [pc |-> "returned",
              response |-> <<[description |-> <<"CNAME ">> \o c.cname \o <<".">>
                                  \o c.zone_name \o <<" points to ">>
                                  \o c.originating_record,
                              output |-> r.output]>>,
              raised |-> NoExc, built |-> r.built, sent |-> r.sent]

(***************************************************************************)
(* delete_record: the lookups before the loop, and one turn of the loop.  *)
(***************************************************************************)
NoCred == [dns_port |-> 0, keyring |-> <<>>, algorithm |-> "-"]

\* faulty variant of DeleteLookup: the loop is entered without the key
DeleteLookupNoKeyCheck(c) ==
    IF ~ServerKnown(c.dns_server)
    THEN [pc |-> "raised", raised |-> Exc("BindServer.DoesNotExist", <<>>),
          cred |-> NoCred]
    ELSE [pc |-> IF c.rr_list = <<>> THEN "returned" ELSE "delete_loop",
          raised |-> NoExc,
          cred |-> [dns_port |-> GetServer(c.dns_server).dns_port,
                    keyring |-> <<"none">>, algorithm |-> "-"]]

DeleteLookup(c) ==
    IF ~ServerKnown(c.dns_server)
    THEN [pc |-> "raised", raised |-> Exc("BindServer.DoesNotExist", <<>>),
          cred |-> NoCred]
    ELSE IF ~KeyKnown(c.key_name)
    THEN [pc |-> "raised", raised |-> UnknownKeyError(c.key_name), cred |-> NoCred]
    ELSE [pc |-> IF c.rr_list = <<>> THEN "returned" ELSE "delete_loop",
          raised |-> NoExc,
          cred |-> [dns_port |-> GetServer(c.dns_server).dns_port,
                    keyring |-> CreateKeyring(GetKey(c.key_name)),
                    algorithm |-> GetKey(c.key_name).algorithm]]

\* faulty variant of Caught: an except clause that names RecordException alone
CaughtRecordOnly(e) == e.type \in {"RecordException"}

\* the exceptions the loop's except clause catches
Caught(e) == e.type \in {"KeyringException", "RecordException"}

\* faulty variant of DeleteItem: the key is looked up again for every item
DeleteItemLooksUpKey(c, cr, current_rr, net) ==
    LET record_list == Split1(current_rr)
    IN  IF Len(record_list) < 2
        THEN [raised |-> Exc("IndexError", <<>>), entries |-> <<>>,
              built |-> <<>>, sent |-> <<>>]
        ELSE IF ~KeyKnown(c.key_name)
        THEN [raised |-> UnknownKeyError(c.key_name), entries |-> <<>>,
              built |-> <<>>, sent |-> <<>>]
        ELSE
          LET record == record_list[1]
              domain == record_list[2]
              dns_update == UpdateMessage(domain, CreateKeyring(GetKey(c.key_name)),
                                          GetKey(c.key_name).algorithm,
                                          "delete", record, 0, "ANY", <<>>)
              x == Exchange(dns_update, c.dns_server, cr.dns_port, c.key_name, net)
          IN  IF x.result.exc = NoExc
              THEN [raised |-> NoExc,
                    entries |-> <<[description |-> x.result.output,
                                   record |-> current_rr, success |-> TRUE]>>,
                    built |-> <<dns_update>>, sent |-> <<x>>]
              ELSE IF x.result.exc.type \in {"KeyringException", "RecordException"}
              THEN [raised |-> NoExc,
                    entries |-> <<[description |-> x.result.exc,
                                   record |-> current_rr, success |-> FALSE]>>,
                    built |-> <<dns_update>>, sent |-> <<x>>]
              ELSE [raised |-> x.result.exc, entries |-> <<>>,
                    built |-> <<dns_update>>, sent |-> <<x>>]

\* one turn of the loop for current_rr: the entry appended to delete_response,
\* or the exception that leaves the loop
DeleteItem(c, cr, current_rr, net) ==
    LET record_list == Split1(current_rr)
    IN  IF Len(record_list) < 2
        THEN \* record_list[1] raises
             [raised |-> Exc("IndexError", <<>>), entries |-> <<>>,
              built |-> <<>>, sent |-> <<>>]
        ELSE
          LET record == record_list[1]
              domain == record_list[2]
              dns_update == UpdateMessage(domain, cr.keyring, cr.algorithm,
                                          "delete", record, 0, "ANY", <<>>)
              x == Exchange(dns_update, c.dns_server, cr.dns_port, c.key_name, net)
          IN  IF x.result.exc = NoExc
              THEN [raised |-> NoExc,
                    entries |-> <<[description |-> x.result.output,
                                   record |-> current_rr, success |-> TRUE]>>,
                    built |-> <<dns_update>>, sent |-> <<x>>]
              ELSE IF Caught(x.result.exc)
              THEN [raised |-> NoExc,
                    entries |-> <<[description |-> x.result.exc,
                                   record |-> current_rr, success |-> FALSE]>>,
                    built |-> <<dns_update>>, sent |-> <<x>>]
              ELSE [raised |-> x.result.exc, entries |-> <<>>,
                    built |-> <<dns_update>>, sent |-> <<x>>]

(***************************************************************************)
(* The nameserver.  It holds records (fully-qualified owner, type, rdata) *)
(* and applies an update it accepts (NOERROR) as RFC 2136 says: an add    *)
(* puts the record in its RRset, a replace first empties the RRset of     *)
(* that owner and type, and a delete that names an owner alone (type ANY, *)
(* no rdata) removes every RRset of that owner.                            *)
(***************************************************************************)
Fqdn(m) == m.name \o <<".">> \o m.zone

RecordOf(m) == [fqdn |-> Fqdn(m), rtype |-> m.rtype, rdata |-> m.rdata]

ApplyUpdate(z, m) ==
    CASE m.op = "add" -> z \cup {RecordOf(m)}
      [] m.op = "replace" ->
            {r \in z : ~(r.fqdn = Fqdn(m) /\ r.rtype = m.rtype)} \cup {RecordOf(m)}
      [] m.op = "delete" ->
            IF m.rtype = "ANY" THEN {r \in z : r.fqdn # Fqdn(m)}
            ELSE IF m.rdata = <<>>
            THEN {r \in z : ~(r.fqdn = Fqdn(m) /\ r.rtype = m.rtype)}
            ELSE z \ {RecordOf(m)}

\* the zone after the exchanges xs, of which the accepted ones take effect
RECURSIVE ApplyExchanges(_, _)
ApplyExchanges(z, xs) ==
    IF xs = <<>> THEN z
    ELSE ApplyExchanges(
             IF Head(xs).net.kind = "response" /\ Head(xs).net.rcode = NOERROR
             THEN ApplyUpdate(z, Head(xs).message) ELSE z,
             Tail(xs))

\* what the nameserver may hold when a call begins
InitialZones ==
    { {},
      { [fqdn |-> <<"a", ".", "e", "x">>, rtype |-> "A",
         rdata |-> <<"1", "0", ".", "2", "0", ".", "0", ".", "5">>],
        [fqdn |-> <<"a", ".", "e", "x">>, rtype |-> "TXT",
         rdata |-> <<"\"", "h", "i", "\"">>],
        [fqdn |-> <<"w", ".", "e", "x">>, rtype |-> "A",
         rdata |-> <<"1", "9", "2", ".", "0", ".", "2", ".", "1", "7">>] } }

(***************************************************************************)
(* TCP connections.  dns.query.tcp opens a connection of its own for the  *)
(* message, sends it, reads the response and closes the connection        *)
(* whatever the outcome.                                                   *)
(***************************************************************************)
OpenConn == [open |-> TRUE, requests |-> 1]
ClosedConn == [open |-> FALSE, requests |-> 1]

\* the connections of the exchanges xs, once they are over
ClosedConns(xs) == [i \in 1..Len(xs) |-> ClosedConn]

(***************************************************************************)
(* The calls the model makes.                                              *)
(***************************************************************************)
DnsServers == {<<"ns1">>, <<"ns9">>}
KeyNames == {<<"k1">>, <<"k9">>}
ZoneNames == {<<"e", "x">>}
RecordNames == {<<"w">>}
RecordTypes == {"A", "AAAA", "TXT", "CNAME"}
RecordDatas == {a.text : a \in AddressLiterals} \cup {<<"h", "i">>}
Ttls == {300}
RRStrings == {<<"a", ".", "e", "x">>, <<"b", ".", "c", ".", "e", "x">>, <<"l", "o">>}

RECURSIVE SeqsUpTo(_, _)
SeqsUpTo(S, n) ==
    IF n = 0 THEN {<<>>}
    ELSE SeqsUpTo(S, n - 1)
         \cup {Append(q, x) : q \in {t \in SeqsUpTo(S, n - 1) : Len(t) = n - 1}, x \in S}

AddRecordCalls ==
    [op : {"add_record"}, dns_server : DnsServers, zone_name : ZoneNames,
     record_name : RecordNames, record_type : RecordTypes,
     record_data : RecordDatas, ttl : Ttls, key_name : KeyNames,
     create_reverse : BOOLEAN, replace : BOOLEAN]

AddCnameCalls ==
    [op : {"add_cname_record"}, dns_server : DnsServers, zone_name : ZoneNames,
     cname : RecordNames, originating_record : {<<"t", ".", "e", "x">>},
     ttl : Ttls, key_name : KeyNames]

DeleteCalls ==
    [op : {"delete_record"}, dns_server : DnsServers,
     rr_list : SeqsUpTo(RRStrings, MaxRR), key_name : KeyNames]

NoCall == [op |-> "none"]

(***************************************************************************)
(* The state machine.                                                      *)
(***************************************************************************)
Init ==
    /\ pc = "idle"
    /\ call = NoCall
    /\ response = <<>>
    /\ raised = NoExc
    /\ cred = NoCred
    /\ idx = 1
    /\ built = <<>>
    /\ sent = <<>>
    /\ conns = <<>>
    /\ keys = Keys
    /\ nsRecords \in InitialZones

Free == pc = "idle"

\* a caller enters one of the three operations
Enter(c, first) ==
    /\ Free
    /\ pc' = first
    /\ call' = c
    /\ UNCHANGED <<response, raised, cred, idx, built, sent, conns, keys, nsRecords>>

\* the caller has the call's result (the returned list or the exception); the
\* call's locals are gone, and what the nameserver holds by the next call is
\* any of InitialZones (other clients update it between calls)
Leave ==
    /\ pc \in {"returned", "raised"}
    /\ pc' = "idle"
    /\ call' = NoCall
    /\ response' = <<>>
    /\ raised' = NoExc
    /\ cred' = NoCred
    /\ idx' = 1
    /\ built' = <<>>
    /\ sent' = <<>>
    /\ conns' = <<>>
    /\ nsRecords' \in InitialZones
    /\ keys' = Keys

CallAddRecord == \E c \in AddRecordCalls : Enter(c, "add_forward")

CallAddCnameRecord == \E c \in AddCnameCalls : Enter(c, "add_cname")

CallDeleteRecord == \E c \in DeleteCalls : Enter(c, "delete_lookup")

\* add_record, lines 39-49 and the test of line 59 (and line 75 when it is false)
AddForwardStep ==
    /\ pc = "add_forward"
    /\ \E net \in NetOutcomes :
         LET r == AddRecordForward(call, net)
         IN  /\ pc' = r.pc
             /\ response' = r.response
             /\ raised' = r.raised
             /\ built' = built \o r.built
             /\ sent' = sent \o r.sent
             /\ conns' = conns \o ClosedConns(r.sent)
             /\ nsRecords' = ApplyExchanges(nsRecords, r.sent)
    /\ UNCHANGED <<call, cred, idx, keys>>

\* add_record, lines 60-75
AddReverseStep ==
    /\ pc = "add_reverse"
    /\ \E net \in NetOutcomes :
         LET r == AddRecordReverse(call, response, net)
         IN  /\ pc' = r.pc
             /\ response' = r.response
             /\ raised' = r.raised
             /\ built' = built \o r.built
             /\ sent' = sent \o r.sent
             /\ conns' = conns \o ClosedConns(r.sent)
             /\ nsRecords' = ApplyExchanges(nsRecords, r.sent)
    /\ UNCHANGED <<call, cred, idx, keys>>

\* add_cname_record, lines 81-92
AddCnameStep ==
    /\ pc = "add_cname"
    /\ \E net \in NetOutcomes :
         LET r == AddCnameRecord(call, net)
         IN  /\ pc' = r.pc
             /\ response' = r.response
             /\ raised' = r.raised
             /\ built' = built \o r.built
             /\ sent' = sent \o r.sent
             /\ conns' = conns \o ClosedConns(r.sent)
             /\ nsRecords' = ApplyExchanges(nsRecords, r.sent)
    /\ UNCHANGED <<call, cred, idx, keys>>

\* delete_record, lines 97-110 (and line 133 when rr_list is empty)
DeleteLookupStep ==
    /\ pc = "delete_lookup"
    /\ LET r == DeleteLookup(call)
       IN  /\ pc' = r.pc
           /\ raised' = r.raised
           /\ cred' = r.cred
    /\ UNCHANGED <<call, response, idx, built, sent, conns, keys, nsRecords>>

\* faulty variant of CurrentRR: the list is walked from its end
CurrentRRBackwards(c, i) == c.rr_list[Len(c.rr_list) + 1 - i]

\* the item the i-th turn of the loop handles
CurrentRR(c, i) == c.rr_list[i]

\* delete_record, lines 111-131 for one item (and line 133 after the last)
DeleteLoopStep ==
    /\ pc = "delete_loop"
    /\ \E net \in NetOutcomes :
         LET r == DeleteItem(call, cred, CurrentRR(call, idx), net)
         IN  /\ pc' = IF r.raised # NoExc THEN "raised"
                      ELSE IF idx = Len(call.rr_list) THEN "returned"
                      ELSE "delete_loop"
             /\ response' = response \o r.entries
             /\ raised' = r.raised
             /\ idx' = IF r.raised # NoExc THEN idx ELSE idx + 1
             /\ built' = built \o r.built
             /\ sent' = sent \o r.sent
             /\ conns' = conns \o ClosedConns(r.sent)
             /\ nsRecords' = ApplyExchanges(nsRecords, r.sent)
    /\ UNCHANGED <<call, cred, keys>>

Next ==
    \/ CallAddRecord
    \/ CallAddCnameRecord
    \/ CallDeleteRecord
    \/ AddForwardStep
    \/ AddReverseStep
    \/ AddCnameStep
    \/ DeleteLookupStep
    \/ DeleteLoopStep
    \/ Leave

Spec == Init /\ [][Next]_vars

(***************************************************************************)
(* Other requests.  The Key table is shared with the other requests of    *)
(* the application, which may change a key or remove it at any moment of  *)
(* a call.                                                                 *)
(***************************************************************************)
KeyTables ==
    { Keys,
      {},
      {[name |-> <<"k1">>, data |-> <<"b3RoZXI=">>, algorithm |-> "hmac-sha256"]} }

\* another request edits the key table while a delete_record call is running
ChangeKey ==
    /\ pc \in {"delete_lookup", "delete_loop"}
    /\ \E t \in KeyTables \ {keys} : keys' = t
    /\ UNCHANGED <<pc, call, response, raised, cred, idx, built, sent, conns, nsRecords>>

NextConc ==
    \/ Next
    \/ ChangeKey

SpecConc == Init /\ [][NextConc]_vars

(***************************************************************************)
(* The same calls with each exchange in two steps: the update is built    *)
(* and dns.query.tcp opens its connection and sends it; then the exchange *)
(* ends (a response, or an exception) and the connection is closed.  The  *)
(* call blocks in between.                                                 *)
(***************************************************************************)
StepPcs == {"add_forward", "add_reverse", "add_cname", "delete_loop"}

\* the step the call stands at, as its effect on the call's state
StepResult(net) ==
    CASE pc = "add_forward" ->
            LET r == AddRecordForward(call, net)
            IN  [pc |-> r.pc, response |-> r.response, raised |-> r.raised,
                 idx |-> idx, built |-> r.built, sent |-> r.sent]
      [] pc = "add_reverse" ->
            LET r == AddRecordReverse(call, response, net)
            IN  [pc |-> r.pc, response |-> r.response, raised |-> r.raised,
                 idx |-> idx, built |-> r.built, sent |-> r.sent]
      [] pc = "add_cname" ->
            LET r == AddCnameRecord(call, net)
            IN  [pc |-> r.pc, response |-> r.response, raised |-> r.raised,
                 idx |-> idx, built |-> r.built, sent |-> r.sent]
      [] pc = "delete_loop" ->
            LET r == DeleteItem(call, cred, CurrentRR(call, idx), net)
            IN  [pc |-> IF r.raised # NoExc THEN "raised"
                        ELSE IF idx = Len(call.rr_list) THEN "returned"
                        ELSE "delete_loop",
                 response |-> response \o r.entries, raised |-> r.raised,
                 idx |-> IF r.raised # NoExc THEN idx ELSE idx + 1,
                 built |-> r.built, sent |-> r.sent]

\* the call is blocked in dns.query.tcp
InFlight == conns # <<>> /\ conns[Len(conns)].open

\* the step up to the moment the message is on its connection; a step that
\* raises before that (a lookup, the builder, the split) is over at once
BeginExchange ==
    /\ pc \in StepPcs
    /\ ~InFlight
    /\ \E r \in {StepResult(CHOOSE n \in NetOutcomes : TRUE)} :
           IF r.sent = <<>>
           THEN /\ pc' = r.pc
                /\ response' = r.response
                /\ raised' = r.raised
                /\ idx' = r.idx
                /\ built' = built \o r.built
                /\ UNCHANGED conns
           ELSE /\ built' = built \o r.built
                /\ conns' = Append(conns, OpenConn)
                /\ UNCHANGED <<pc, response, raised, idx>>
    /\ UNCHANGED <<call, cred, sent, keys, nsRecords>>

\* the exchange ends and the rest of the step runs
EndExchange ==
    /\ pc \in StepPcs
    /\ InFlight
    /\ \E net \in NetOutcomes :
         \E r \in {StepResult(net)} :
             /\ pc' = r.pc
             /\ response' = r.response
             /\ raised' = r.raised
             /\ idx' = r.idx
             /\ sent' = sent \o r.sent
             /\ conns' = [conns EXCEPT ![Len(conns)] = ClosedConn]
             /\ nsRecords' = ApplyExchanges(nsRecords, r.sent)
    /\ UNCHANGED <<call, cred, built, keys>>

NextConn ==
    \/ CallAddRecord
    \/ CallAddCnameRecord
    \/ CallDeleteRecord
    \/ DeleteLookupStep
    \/ BeginExchange
    \/ EndExchange
    \/ Leave

SpecConn == Init /\ [][NextConn]_vars

(***************************************************************************)
(* Vocabulary of the properties.                                           *)
(***************************************************************************)
\* the exchange ended with a NOERROR response
Accepted(x) == x.net.kind = "response" /\ x.net.rcode = 0

\* the exchange ended with a TSIG rejection by the peer
TsigRejected(x) == x.net.kind = "raise" /\ x.net.exc \in {"PeerBadKey", "PeerBadSignature"}

\* the exchange ended with a response whose code is not NOERROR
Refused(x) == x.net.kind = "response" /\ x.net.rcode # 0

\* the exchange failed at the connection
TransportFailed(x) ==
    x.net.kind = "raise" /\ x.net.exc \in {"socket.timeout", "ConnectionRefusedError"}

\* an rr string of the form <owner>.<zone>
WellFormedRR(rr) == \E i \in 1..Len(rr) : rr[i] = "."

Finished == pc \in {"returned", "raised"}

InDelete == call.op = "delete_record"
InAdd == call.op = "add_record"
InCname == call.op = "add_cname_record"

\* delete_record got past its lookups
Resolved == InDelete /\ cred # NoCred

\* the i-th exchange of a delete_record call is the DELETE of the i-th item
DeleteOf(x, rr) ==
    /\ x.message.op = "delete"
    /\ x.message.name \o <<".">> \o x.message.zone = rr

\* the i-th entry of the report is the one the claim describes for the i-th item
EntryOf(e, x, rr) ==
    /\ e.record = rr
    /\ e.success = Accepted(x)

(***************************************************************************)
(* C1.  delete_record isolates failures per item: when every item of      *)
(* rr_list has the form <owner>.<zone> and every exchange so far was      *)
(* accepted (NOERROR), rejected by TSIG or answered with a non-NOERROR    *)
(* code, the call has not raised, the items handled so far were each      *)
(* attempted once, in order, and the report has one entry per handled     *)
(* item, in order, with the item's string and success exactly when its    *)
(* delete was accepted; the call returns only with all items handled.     *)
(***************************************************************************)
C1_DeleteIsolatesFailures ==
    ( /\ Resolved
      /\ \A i \in 1..Len(call.rr_list) : WellFormedRR(call.rr_list[i])
      /\ \A i \in 1..Len(sent) :
            Accepted(sent[i]) \/ TsigRejected(sent[i]) \/ Refused(sent[i]) )
    =>
    /\ pc # "raised"
    /\ Len(sent) = Len(response)
    /\ Len(response) <= Len(call.rr_list)
    /\ pc = "returned" => Len(response) = Len(call.rr_list)
    /\ pc = "delete_loop" => Len(response) = idx - 1
    /\ \A i \in 1..Len(response) :
          /\ DeleteOf(sent[i], call.rr_list[i])
          /\ EntryOf(response[i], sent[i], call.rr_list[i])

\* a two-item batch whose first delete was refused and whose second was accepted
C1_Witness ==
    /\ InDelete /\ pc = "returned"
    /\ Len(call.rr_list) = 2 /\ Len(response) = 2
    /\ Refused(sent[1]) /\ ~response[1].success
    /\ Accepted(sent[2]) /\ response[2].success

(***************************************************************************)
(* C2.  Once credential resolution has succeeded, delete_record never     *)
(* raises, whatever the per-item failure (TSIG rejection, transport       *)
(* failure, non-NOERROR code): stated for lists of well-formed items.     *)
(***************************************************************************)
C2_DeleteNeverRaises ==
    ( /\ Resolved
      /\ \A i \in 1..Len(call.rr_list) : WellFormedRR(call.rr_list[i]) )
    =>
    /\ pc # "raised"
    /\ pc = "returned" => Len(response) = Len(call.rr_list)

(***************************************************************************)
(* C3.  add_record is fail-fast.  A reverse step is reached, and a PTR    *)
(* update or a second exchange exists, only after the forward update was  *)
(* accepted; and when the forward step failed, the call has raised, with  *)
(* no report, nothing built beyond the forward update, and the exception  *)
(* is the forward step's own: the one send_dns_update raised for the      *)
(* forward exchange (a transport error as dns.query.tcp raised it), or,   *)
(* with nothing sent, the lookup's or the builder's.                       *)
(***************************************************************************)
ForwardAccepted == Len(sent) >= 1 /\ Accepted(sent[1])

C3_AddRecordFailFast ==
    InAdd =>
    /\ ( \/ pc = "add_reverse"
         \/ pc = "returned"
         \/ Len(sent) >= 2
         \/ Len(built) >= 2
         \/ \E i \in 1..Len(built) : built[i].rtype = "PTR" )
       => ForwardAccepted
    /\ (Finished /\ ~ForwardAccepted) =>
         /\ pc = "raised"
         /\ response = <<>>
         /\ Len(built) <= 1 /\ Len(sent) <= 1
         /\ \A i \in 1..Len(built) : built[i].rtype = call.record_type
         /\ IF sent # <<>>
            THEN /\ raised = sent[1].result.exc
                 /\ TransportFailed(sent[1]) => raised.type = sent[1].net.exc
            ELSE raised \in { Exc("BindServer.DoesNotExist", <<>>),
                               UnknownKeyError(call.key_name),
                               Exc("dns.exception.SyntaxError", <<>>) }

\* the forward update of a call that asked for a reverse record was refused
C3_Witness ==
    /\ InAdd /\ call.create_reverse /\ call.record_type = "A"
    /\ pc = "raised" /\ Len(sent) = 1 /\ Refused(sent[1])
    /\ raised.type = "RecordException"

(***************************************************************************)
(* C4.  add_record with create_reverse and an address type, once the      *)
(* forward update was accepted and the call is over, has issued exactly   *)
(* two updates: the forward one (ADD or REPLACE as `replace` says), then  *)
(* a REPLACE of a PTR record whose rdata is record_name.zone_name. and    *)
(* whose owner and zone are the first label of the canonical reverse name *)
(* and everything after it.                                                *)
(***************************************************************************)
QuotedName(c) == c.record_name \o <<".">> \o c.zone_name \o <<".">>

C4_AddWithReverseTwoOperations ==
    ( /\ InAdd /\ Finished
      /\ call.create_reverse
      /\ call.record_type \in {"A", "AAAA"}
      /\ ForwardAccepted )
    =>
    /\ Len(built) = 2 /\ Len(sent) = 2
    /\ sent[1].message = built[1] /\ sent[2].message = built[2]
    /\ built[1].op = (IF call.replace THEN "replace" ELSE "add")
    /\ built[1].rtype = call.record_type
    /\ built[1].name = call.record_name /\ built[1].zone = call.zone_name
    /\ built[2].op = "replace"
    /\ built[2].rtype = "PTR"
    /\ built[2].rdata = QuotedName(call)
    /\ built[2].name = Split1(FromAddress(call.record_data))[1]
    /\ built[2].zone = Split1(FromAddress(call.record_data))[2]

(***************************************************************************)
(* C5.  add_record with create_reverse and a type that is not an address  *)
(* type never attempts a reverse step: the call never stands at the       *)
(* reverse step, at most one update is built and sent, none of them a     *)
(* PTR, and once the forward update was accepted the call returns a       *)
(* one-element report.                                                     *)
(***************************************************************************)
C5_NoReverseForNonAddressType ==
    ( /\ InAdd
      /\ call.create_reverse
      /\ call.record_type \notin {"A", "AAAA"} )
    =>
    /\ pc # "add_reverse"
    /\ Len(built) <= 1 /\ Len(sent) <= 1
    /\ \A i \in 1..Len(built) : built[i].rtype # "PTR"
    /\ (Finished /\ ForwardAccepted) => (pc = "returned" /\ Len(response) = 1)

(***************************************************************************)
(* C6.  delete_record with a key_name that has no configured credential   *)
(* and a non-empty rr_list, once past its lookups, has raised the         *)
(* unknown-key KeyringException with no update built and none sent.       *)
(***************************************************************************)
C6_DeleteUnknownKeyRaises ==
    ( /\ InDelete
      /\ ~KeyKnown(call.key_name)
      /\ call.rr_list # <<>>
      /\ pc # "delete_lookup" )
    =>
    /\ pc = "raised"
    /\ raised = UnknownKeyError(call.key_name)
    /\ built = <<>> /\ sent = <<>>

(***************************************************************************)
(* C6, for a registered server.  The same, for a dns_server that is a     *)
(* registered server: delete_record looks the server up before the key.   *)
(***************************************************************************)
C6_DeleteUnknownKeyRaisesKnownServer ==
    ( /\ InDelete
      /\ ServerKnown(call.dns_server)
      /\ ~KeyKnown(call.key_name)
      /\ call.rr_list # <<>>
      /\ pc # "delete_lookup" )
    =>
    /\ pc = "raised"
    /\ raised.type = "KeyringException"
    /\ raised.msg = <<"The specified TSIG key ">> \o call.key_name
                      \o <<" does not exist in binders configuration.">>
    /\ response = <<>>
    /\ built = <<>> /\ sent = <<>>

\* a two-item batch on a registered server, stopped by the unknown key
C6_Witness ==
    /\ InDelete /\ pc = "raised"
    /\ ServerKnown(call.dns_server) /\ ~KeyKnown(call.key_name)
    /\ Len(call.rr_list) = 2
    /\ raised.type = "KeyringException"

(***************************************************************************)
(* C7.  send_dns_update classifies every completed exchange into exactly  *)
(* one outcome: a peer bad-key or bad-signature ends in a                 *)
(* KeyringException whose message carries the server hostname and the key *)
(* name; a response with a code other than NOERROR ends in a              *)
(* RecordException whose message carries the server hostname and the      *)
(* code's name; and the response is returned if and only if its code is   *)
(* NOERROR.                                                                *)
(***************************************************************************)
CodeName(r) == IF r = 3 THEN "NXDOMAIN" ELSE IF r = 5 THEN "REFUSED" ELSE "NOERROR"

C7_SendClassifies ==
    \A i \in 1..Len(sent) :
        LET x == sent[i]
        IN  /\ TsigRejected(x) =>
                /\ x.result.exc.type = "KeyringException"
                /\ Contains(x.result.exc.msg, x.server)
                /\ Contains(x.result.exc.msg, x.key_name)
                /\ x.result.output = NoOutput
            /\ Refused(x) =>
                /\ x.result.exc.type = "RecordException"
                /\ Contains(x.result.exc.msg, x.server)
                /\ Contains(x.result.exc.msg, <<CodeName(x.net.rcode)>>)
                /\ x.result.output = NoOutput
            /\ (x.result.exc = NoExc) <=> Accepted(x)
            /\ Accepted(x) => x.result.output = [rcode |-> 0]
            /\ (x.result.output # NoOutput) <=> Accepted(x)

\* a batch that met a bad signature, then a refusal
C7_Witness ==
    /\ Len(sent) = 2
    /\ sent[1].net.exc = "PeerBadSignature"
    /\ Refused(sent[2]) /\ sent[2].net.rcode = 5

(***************************************************************************)
(* C8.  Reverse-name derivation: the owner and zone of every PTR update   *)
(* add_record builds for an A or AAAA record are the first label of the   *)
(* canonical reverse name of record_data and everything after that        *)
(* label's separator, so that owner.zone is the canonical reverse name.   *)
(***************************************************************************)
C8_ReverseNameSplit ==
    (InAdd /\ call.record_type \in {"A", "AAAA"}) =>
        \A i \in 1..Len(built) :
            built[i].rtype = "PTR" =>
                /\ built[i].name = Split1(FromAddress(call.record_data))[1]
                /\ built[i].zone = Split1(FromAddress(call.record_data))[2]
                /\ built[i].name \o <<".">> \o built[i].zone
                     = FromAddress(call.record_data)

(***************************************************************************)
(* C9.  TXT quoting: in every update create_update builds, the rdata is   *)
(* the rdata create_update was given wrapped in double quotes if the type *)
(* is TXT, and the rdata it was given, unmodified, for every other type.  *)
(***************************************************************************)
\* the rdata create_update was given for the i-th update of the call
GivenRdata(i) ==
    IF InCname THEN call.originating_record \o <<".">>
    ELSE IF i = 1 THEN call.record_data
    ELSE QuotedName(call)

C9_TxtQuoting ==
    (InAdd \/ InCname) =>
        \A i \in 1..Len(built) :
            /\ built[i].rtype = "TXT" =>
                 /\ built[i].rdata = <<"\"">> \o GivenRdata(i) \o <<"\"">>
                 /\ Len(built[i].rdata) = Len(GivenRdata(i)) + 2
            /\ built[i].rtype # "TXT" => built[i].rdata = GivenRdata(i)

\* a TXT record with rdata hi was built and accepted
C9_Witness ==
    /\ InAdd /\ pc = "returned" /\ Len(built) = 1
    /\ call.record_data = <<"h", "i">>
    /\ built[1].rtype = "TXT" /\ built[1].rdata = <<"\"", "h", "i", "\"">>

(***************************************************************************)
(* C10.  add_cname_record builds and sends one operation per call, and    *)
(* never more: a REPLACE of type CNAME at owner cname in zone_name whose  *)
(* rdata is originating_record with one "." appended.  When the update is *)
(* accepted the call returns a one-element report carrying the response;  *)
(* on any failure the call raises the failing step's own exception and    *)
(* returns nothing.                                                        *)
(***************************************************************************)
C10_AddCnameOneReplace ==
    (InCname /\ Finished) =>
    /\ Len(built) <= 1 /\ Len(sent) <= 1 /\ Len(sent) = Len(built)
    /\ (ServerKnown(call.dns_server) /\ KeyKnown(call.key_name)) => Len(sent) = 1
    /\ \A i \in 1..Len(built) :
          /\ built[i].op = "replace"
          /\ built[i].rtype = "CNAME"
          /\ built[i].name = call.cname
          /\ built[i].zone = call.zone_name
          /\ built[i].rdata = call.originating_record \o <<".">>
          /\ sent[i].message = built[i]
    /\ IF Len(sent) = 1 /\ Accepted(sent[1])
       THEN /\ pc = "returned"
            /\ Len(response) = 1
            /\ response[1].output = sent[1].result.output
            /\ response[1].output.rcode = 0
       ELSE /\ pc = "raised"
            /\ response = <<>>
            /\ IF sent # <<>>
               THEN /\ raised = sent[1].result.exc
                    /\ TransportFailed(sent[1]) => raised.type = sent[1].net.exc
               ELSE raised \in { Exc("BindServer.DoesNotExist", <<>>),
                                  UnknownKeyError(call.key_name) }

\* an accepted CNAME update
C10_Witness ==
    /\ InCname /\ pc = "returned"
    /\ Len(sent) = 1 /\ Accepted(sent[1])
    /\ built[1].op = "replace"

(***************************************************************************)
(* C12.  No retries: every transmission of a call is the transmission of  *)
(* one step's update, the i-th transmission that of the i-th update       *)
(* built, so no update is sent twice and a failed one is never re-sent;   *)
(* a call transmits at most 2 times in add_record, once in                *)
(* add_cname_record, len(rr_list) times in delete_record.                 *)
(***************************************************************************)
C12_NoRetries ==
    /\ Len(sent) <= Len(built)
    /\ \A i \in 1..Len(sent) : sent[i].message = built[i]
    /\ InAdd =>
         /\ Len(sent) <= 2
         /\ Len(sent) >= 1 => sent[1].message.rtype = call.record_type
         /\ Len(sent) >= 2 => sent[2].message.rtype = "PTR"
    /\ InCname => Len(sent) <= 1
    /\ InDelete =>
         /\ Len(sent) <= Len(call.rr_list)
         /\ \A i \in 1..Len(sent) : DeleteOf(sent[i], call.rr_list[i])

\* a batch of two items, each sent once although both deletes failed
C12_Witness ==
    /\ InDelete /\ pc = "returned"
    /\ Len(call.rr_list) = 2 /\ Len(sent) = 2
    /\ Refused(sent[1]) /\ TsigRejected(sent[2])

(***************************************************************************)
(* C13.  delete_record splits each rr string at its first "." only: the   *)
(* DELETE built for the i-th item deletes an owner name that is one label *)
(* (no "." in it) in a zone that is everything after that label's ".", so *)
(* that owner.zone is the item.                                            *)
(***************************************************************************)
C13_DeleteSplitsAtFirstDot ==
    InDelete =>
        \A i \in 1..Len(built) :
            /\ built[i].op = "delete"
            /\ \A j \in 1..Len(built[i].name) : built[i].name[j] # "."
            /\ built[i].name \o <<".">> \o built[i].zone = call.rr_list[i]

\* the item b.c.ex was built as owner b in zone c.ex
C13_Witness ==
    /\ InDelete /\ Len(built) >= 1
    /\ call.rr_list[1] = <<"b", ".", "c", ".", "e", "x">>
    /\ built[1].name = <<"b">>
    /\ built[1].zone = <<"c", ".", "e", "x">>

(***************************************************************************)
(* C15.  Every report add_record returns holds successful outputs only:   *)
(* one entry when no reverse step ran, two (forward, then reverse) when   *)
(* one did, and each entry's output is the response of that step's        *)
(* exchange, whose code is NOERROR.                                        *)
(***************************************************************************)
C15_AddReportOnlySuccesses ==
    (InAdd /\ pc = "returned") =>
    /\ Len(response) = Len(sent)
    /\ Len(response) = (IF \E i \in 1..Len(built) : built[i].rtype = "PTR" THEN 2 ELSE 1)
    /\ response[1].description[1] = "Forward Record Creation: "
    /\ sent[1].message.rtype = call.record_type
    /\ Len(response) = 2 =>
         /\ response[2].description[1] = "Reverse Record Creation: "
         /\ sent[2].message.rtype = "PTR"
    /\ \A i \in 1..Len(response) :
          /\ response[i].output = sent[i].result.output
          /\ response[i].output.rcode = 0
          /\ sent[i].net.kind = "response" /\ sent[i].net.rcode = 0

\* a returned report of two entries
C15_Witness ==
    /\ InAdd /\ pc = "returned"
    /\ Len(response) = 2
    /\ response[2].output.rcode = 0

(***************************************************************************)
(* C14.  A DELETE removes only the specific record it names: a step of    *)
(* delete_record removes from the server's record set nothing but records *)
(* of one owner name and one type, so records of other types at the same  *)
(* owner name stay.                                                        *)
(***************************************************************************)
C14_DeleteRemovesOnlyTarget ==
    [][ (InDelete /\ pc = "delete_loop") =>
            /\ nsRecords' \subseteq nsRecords
            /\ \A r1, r2 \in nsRecords \ nsRecords' :
                  r1.fqdn = r2.fqdn /\ r1.rtype = r2.rtype ]_vars

(***************************************************************************)
(* C16.  Steps run strictly sequentially, each on its own connection: a   *)
(* connection is opened only when every earlier one is closed, so at most *)
(* one is open; each carries exactly one exchange; the i-th connection    *)
(* carries the i-th step's update, in rr_list order (delete) or forward   *)
(* then reverse (add); and none is open once the call returned or raised. *)
(***************************************************************************)
C16_SequentialOwnConnection ==
    /\ \A i \in 1..Len(conns) : conns[i].open => i = Len(conns)
    /\ \A i \in 1..Len(conns) : conns[i].requests = 1
    /\ Len(conns) = Len(sent) + (IF InFlight THEN 1 ELSE 0)
    /\ InFlight => (pc \in StepPcs /\ Len(built) = Len(conns))
    /\ (Finished \/ pc = "idle") => \A i \in 1..Len(conns) : ~conns[i].open
    /\ InDelete =>
         /\ \A i \in 1..Len(sent) : DeleteOf(sent[i], call.rr_list[i])
         /\ InFlight =>
              /\ idx = Len(conns)
              /\ built[idx].name \o <<".">> \o built[idx].zone = call.rr_list[idx]
    /\ InAdd =>
         /\ Len(conns) <= 2
         /\ Len(built) >= 1 => built[1].rtype = call.record_type
         /\ Len(built) >= 2 => (built[2].rtype = "PTR" /\ Accepted(sent[1]))
    /\ InCname => Len(conns) <= 1

\* the second item's exchange is under way on its own connection, after the
\* first item's exchange failed and its connection was closed
C16_Witness ==
    /\ InDelete /\ Len(conns) = 2
    /\ ~conns[1].open /\ conns[2].open
    /\ Len(sent) = 1 /\ Refused(sent[1])
    /\ call.rr_list[1] # call.rr_list[2]

(***************************************************************************)
(* C17.  delete_record resolves the credential once, before the first     *)
(* item: every DELETE of the batch is signed with the keyring and the     *)
(* algorithm of that lookup, whatever other requests do to the key table  *)
(* meanwhile, and no item fails on a key lookup.                           *)
(***************************************************************************)
C17_CredentialResolvedOnce ==
    Resolved =>
    /\ cred.keyring.name = call.key_name
    /\ \A i \in 1..Len(built) :
          /\ built[i].keyring = cred.keyring
          /\ built[i].keyalgorithm = cred.algorithm
    /\ \A i \in 1..Len(sent) : sent[i].message = built[i]
    /\ pc = "raised" => raised.type # "KeyringException"

\* the key table was changed between the two items of a batch
C17_Witness ==
    /\ InDelete /\ Len(sent) = 2
    /\ sent[1].keys_then = Keys
    /\ sent[2].keys_then # Keys
    /\ sent[2].message.keyring = cred.keyring
    /\ sent[1].message.keyring = cred.keyring

(***************************************************************************)
(* C18.  In add_record and add_cname_record, a key_name that has no       *)
(* configured credential at the forward step raises the unknown-key       *)
(* KeyringException with no update built, none sent and no report.        *)
(***************************************************************************)
C18_AddUnknownKeyRaises ==
    ( /\ InAdd \/ InCname
      /\ ~KeyKnown(call.key_name)
      /\ pc \notin {"add_forward", "add_cname"} )
    =>
    /\ pc = "raised"
    /\ raised = UnknownKeyError(call.key_name)
    /\ response = <<>>
    /\ built = <<>> /\ sent = <<>>

(***************************************************************************)
(* C18, for a registered server.  The same, for a dns_server that is a    *)
(* registered server: create_update looks the server up before the key.   *)
(***************************************************************************)
C18_AddUnknownKeyRaisesKnownServer ==
    ( /\ InAdd \/ InCname
      /\ ServerKnown(call.dns_server)
      /\ ~KeyKnown(call.key_name)
      /\ pc \notin {"add_forward", "add_cname"} )
    =>
    /\ pc = "raised"
    /\ raised.type = "KeyringException"
    /\ raised.msg = <<"The specified TSIG key ">> \o call.key_name
                      \o <<" does not exist in binders configuration.">>
    /\ response = <<>>
    /\ built = <<>> /\ sent = <<>>
    /\ conns = <<>>

\* an add_record call on a registered server, stopped by the unknown key
C18_Witness ==
    /\ InAdd /\ pc = "raised"
    /\ ServerKnown(call.dns_server) /\ ~KeyKnown(call.key_name)
    /\ raised.type = "KeyringException"
    /\ sent = <<>>

(***************************************************************************)
(* C19.  Partial effect of add_record: a PTR update is accepted only as   *)
(* the second exchange of a call whose first exchange, the forward        *)
(* update, was accepted; and when add_record has raised, the accepted     *)
(* updates of the call are none or exactly the forward update, no update  *)
(* that would undo it was built or sent, the forward record is in the     *)
(* server's record set, and the caller gets the error, not the report.    *)
(***************************************************************************)
C19_AddPartialEffect ==
    InAdd =>
    /\ \A i \in 1..Len(sent) :
          (sent[i].message.rtype = "PTR" /\ Accepted(sent[i])) =>
              /\ i = 2
              /\ Accepted(sent[1])
              /\ sent[1].message.rtype = call.record_type
              /\ sent[1].message.name = call.record_name
              /\ sent[1].message.zone = call.zone_name
    /\ pc = "raised" =>
          /\ raised # NoExc
          /\ \A i \in 1..Len(sent) :
                Accepted(sent[i]) =>
                    (i = 1 /\ sent[i].message.rtype = call.record_type)
          /\ \A i \in 1..Len(built) : built[i].op # "delete"
          /\ ForwardAccepted =>
                /\ pc # "add_forward"
                /\ RecordOf(sent[1].message) \in nsRecords

\* the reverse update was refused after the forward update had been accepted
C19_Witness ==
    /\ InAdd /\ pc = "raised"
    /\ Len(sent) = 2
    /\ Accepted(sent[1]) /\ Refused(sent[2])
    /\ sent[2].message.rtype = "PTR"
    /\ RecordOf(sent[1].message) \in nsRecords

====
